---- MODULE Spec2Model ----
(***************************************************************************)
(* Air-quality lookup plugin (paulgailey/air-quality-app).                 *)
(*                                                                         *)
(* The repository holds several variants of the same application.  Each    *)
(* variant that a property is about is modelled as its own specification   *)
(* over its own variables:                                                 *)
(*   SpecV423  src/src/index.ts lines 226-638 (v4.2.3: session cache)       *)
(*   SpecP005  src/unnamed/part_005 (v1.1.0: activeTranscriptions gate)     *)
(*   SpecP006  src/unnamed/part_006 lines 1-84 (location handler looks up)  *)
(* Values of the JavaScript program are modelled as tagged records so that *)
(* truthiness tests (!x) are computed as the language computes them.       *)
(***************************************************************************)
EXTENDS Integers, Sequences, FiniteSets, Bags, TLC

\* ------------------------------------------------------------------ bounds
MaxTicks == 3        \* clock advances per behaviour
MaxInFlight == 2     \* provider calls awaited at the same time
MaxWait == 1         \* part_006: clock advances while a behaviour runs
MaxObjects == 2      \* SessionData objects allocated per behaviour
MaxRuns == 2         \* part_003: runs of checkAirQuality in flight at the same time

Sessions == {"s1"}

\* ------------------------------------------------------- JavaScript values
Num(n) == [type |-> "number", value |-> n]
Undefined == [type |-> "undefined", value |-> 0]
Str == [type |-> "string", value |-> 0]   \* a non-empty string such as "-"
NaN == [type |-> "nan", value |-> 0]

\* !v is false exactly for the truthy values
Truthy(v) == \/ v.type = "number" /\ v.value # 0
             \/ v.type = "string"

\* ---------------------------------------------------------------- clock
\* Date.now(), in milliseconds.  The clock advances by one of these steps.
TickSteps == {1, 30000, 60000, 840000}

\* ------------------------------------------------ constants of v4.2.3
LOCATION_MAX_AGE_MS == 30000
AQI_REFRESH_INTERVAL_MS == 15 * 60 * 1000
RECENT_REQUEST_THRESHOLD_MS == 2 * 60 * 1000
API_TIMEOUT_MS == 8000

\* tpaConfig.defaultLocation (public/tpa_config.json)
DefaultLocation == [lat |-> Num(38), lon |-> Num(-1)]

\* ----------------------------------------------------------- transcripts
\* A text is a sequence of characters; "A" is the upper-case form of "a".
LowerChar(c) == CASE c = "A" -> "a" [] c = "Q" -> "q" [] c = "P" -> "p" [] OTHER -> c
ToLowerCase(t) == [i \in 1..Len(t) |-> LowerChar(t[i])]

RECURSIVE TrimStart(_)
TrimStart(t) == IF t # <<>> /\ Head(t) = " " THEN TrimStart(Tail(t)) ELSE t
RECURSIVE TrimEnd(_)
TrimEnd(t) == IF t # <<>> /\ t[Len(t)] = " "
              THEN TrimEnd(SubSeq(t, 1, Len(t) - 1)) ELSE t
Trim(t) == TrimEnd(TrimStart(t))

\* String.prototype.includes
Includes(t, p) == \E i \in 1..(Len(t) - Len(p) + 1) : SubSeq(t, i, i + Len(p) - 1) = p

\* tpaConfig.voiceCommands[0].phrase ("Aq" stands for the configured phrase)
ConfiguredPhrase == <<"A", "q">>
VOICE_COMMAND == ToLowerCase(ConfiguredPhrase)

\* The transcripts the host delivers: the phrase, the phrase in other case
\* and inside a longer text, and texts without it.
Texts == {<<>>, <<"a", "q">>, <<"A", "Q">>, <<" ", "x", "A", "q", " ">>,
          <<"q", "a">>, <<"a", " ", "q">>, <<" ">>, <<"x", "p">>}

\* A transcription event: text is absent (hasText = FALSE) or a string.
Transcriptions == [hasText : {TRUE}, text : Texts, isFinal : BOOLEAN]
                  \cup [hasText : {FALSE}, text : {<<>>}, isFinal : {TRUE}]

\* ------------------------------------------------------- location pushes
\* A push names its axes {lat, lng}, {lat, lon} or {latitude, longitude}.
CoordValues == {Undefined, Num(0), Num(10)}
LocationUpdates == [keys : {"lat_lng", "lat_lon", "latitude_longitude"},
                    a : CoordValues, b : CoordValues]
Field(u, k) ==
  CASE k = "lat" -> IF u.keys \in {"lat_lng", "lat_lon"} THEN u.a ELSE Undefined
    [] k = "lng" -> IF u.keys = "lat_lng" THEN u.b ELSE Undefined
    [] k = "lon" -> IF u.keys = "lat_lon" THEN u.b ELSE Undefined
    [] k = "latitude" -> IF u.keys = "latitude_longitude" THEN u.a ELSE Undefined
    [] k = "longitude" -> IF u.keys = "latitude_longitude" THEN u.b ELSE Undefined

\* ----------------------------------------------------- provider responses
\* axios.get on the WAQI feed: a timeout / network error, or a JSON body
\* {status, data: {aqi, city: {name}}}.
AqiValues == {Undefined, Num(0), Num(42), Num(55)}
Responses == [kind : {"timeout"}, status : {"none"}, aqi : {Undefined}, city : {FALSE}]
             \cup [kind : {"body"}, status : {"error"}, aqi : {Undefined}, city : {FALSE}]
             \cup [kind : {"body"}, status : {"ok"}, aqi : AqiValues, city : BOOLEAN]

\* ------------------------------------------------------------ SessionData
NoLocation == [present |-> FALSE, lat |-> Undefined, lon |-> Undefined, timestamp |-> 0]
NoStation == [aqi |-> Undefined, name |-> "none"]
\* fetchedAt is not a field of the program: it records when the provider
\* answered, for the properties that speak of a reading's real age.
NoAQI == [present |-> FALSE, data |-> NoStation, timestamp |-> 0, fetchedAt |-> 0]
NewSessionData == [location |-> NoLocation, lastAQI |-> NoAQI]

\* ------------------------------------------------------ presented messages
\* A call of session.layouts.showTextWall.  requestedAt and fetchedAt are
\* not part of the text: they record the time of the request that presents
\* the reading and the time the provider answered with it.
NoFreshness == [tag |-> "none", n |-> 0]
Message(kind) == [kind |-> kind, data |-> NoStation, quality |-> "none",
                  freshness |-> NoFreshness,
                  isDefaultLocation |-> FALSE, requestedAt |-> 0, fetchedAt |-> 0]

\* ------------------------------------------------------- severity levels
Infinity == [type |-> "infinity", value |-> 0]

\* AQI_LEVELS of index.ts (v4.2.3; part_003 and part_005 hold the same
\* thresholds) and AQI_LEVELS of types/types.ts, which ends with 500.
AQI_LEVELS ==
  << [max |-> Num(50), label |-> "Good"],
     [max |-> Num(100), label |-> "Moderate"],
     [max |-> Num(150), label |-> "Unhealthy for Sensitive Groups"],
     [max |-> Num(200), label |-> "Unhealthy"],
     [max |-> Num(300), label |-> "Very Unhealthy"],
     [max |-> Infinity, label |-> "Hazardous"] >>
AQI_LEVELS_TYPES ==
  << [max |-> Num(50), label |-> "Good"],
     [max |-> Num(100), label |-> "Moderate"],
     [max |-> Num(150), label |-> "Unhealthy for Sensitive"],
     [max |-> Num(200), label |-> "Unhealthy"],
     [max |-> Num(300), label |-> "Very Unhealthy"],
     [max |-> Num(500), label |-> "Hazardous"] >>

\* A variant of the comparison that leaves the boundary out.
LessThan(a, b) ==
  /\ a.type = "number"
  /\ b.type = "infinity" \/ (b.type = "number" /\ a.value < b.value)

\* a <= b of JavaScript: false whenever a side is not a number (undefined
\* and "-" convert to NaN).
LessOrEqual(a, b) ==
  /\ a.type = "number"
  /\ b.type = "infinity" \/ (b.type = "number" /\ a.value <= b.value)

\* levels.find(l => aqi <= l.max), from index i on: the index of the first
\* such level, 0 for undefined.
RECURSIVE FindFrom(_, _, _)
FindFrom(levels, aqi, i) ==
  IF i > Len(levels) THEN 0
  ELSE IF LessOrEqual(aqi, levels[i].max) THEN i
  ELSE FindFrom(levels, aqi, i + 1)

\* A variant that falls back to the first level of the table.
QualityLevelFirstOnMiss(levels, aqi) ==
  IF FindFrom(levels, aqi, 1) # 0 THEN levels[FindFrom(levels, aqi, 1)]
  ELSE levels[1]
\* levels.find((l) => aqi <= l.max) || levels[levels.length - 1]
QualityLevel(levels, aqi) ==
  IF FindFrom(levels, aqi, 1) # 0 THEN levels[FindFrom(levels, aqi, 1)]
  ELSE levels[Len(levels)]

\* A variant that scans the table from its second entry.
GetQualityLevelFromSecond(aqi) == QualityLevel(Tail(AQI_LEVELS), aqi)
\* getQualityLevel of v4.2.3
GetQualityLevel(aqi) == QualityLevel(AQI_LEVELS, aqi)

\* The text that presents a reading: the station and the label of its level
ReadingMessage(kind, levels, data) ==
  [Message(kind) EXCEPT !.data = data, !.quality = QualityLevel(levels, data.aqi).label]

ResultMessage(data, freshness, isDefault, requestedAt, fetchedAt) ==
  [kind |-> "result", data |-> data, quality |-> GetQualityLevel(data.aqi).label,
   freshness |-> freshness,
   isDefaultLocation |-> isDefault, requestedAt |-> requestedAt, fetchedAt |-> fetchedAt]

\* What the last handler run did: the handler, the number of provider calls
\* it issued and the messages it presented, in order; for a run that resumes
\* after a provider call, the provider's answer; hadReading tells whether the
\* session held a cached reading when the run began.  For the gate of
\* v1.1.0: the transcript handled, and for a step of a checkAirQuality run
\* what started the run and how the run ended.
NoResponse == [kind |-> "none", status |-> "none", aqi |-> Undefined, city |-> FALSE]
Event(op, sid, calls, msgs) ==
  [op |-> op, sid |-> sid, calls |-> calls, msgs |-> msgs,
   response |-> NoResponse, hadReading |-> FALSE,
   text |-> <<>>, origin |-> "none", outcome |-> "none"]

VARIABLES
  now,        \* Date.now()
  ticks,      \* clock advances so far
  event,      \* what the last handler run did
  objects,    \* v4.2.3: the SessionData objects allocated so far
  sessions,   \* v4.2.3: this.sessions, session id -> index in objects (0: no entry)
  handlers,   \* v4.2.3: sessionData captured by onSession's handlers (0: not started)
  inflight,   \* v4.2.3: requests awaiting fetchAQIData (a bag)
  activeSessions,        \* v1.1.0: keys of this.activeSessions
  activeTranscriptions,  \* v1.1.0: this.activeTranscriptions
  cycles,                \* v1.1.0: runs of checkAirQuality in flight (a bag)
  sessionLocation,   \* part_006: session.location of the sessions that have started
  lookups,    \* part_006: location handler runs awaiting the provider (a bag)
  activeSessionsP003,  \* part_003: keys of this.activeSessions
  runs,       \* part_003: runs of checkAirQuality in flight (a bag)
  checks      \* part_004: runs of checkAirQuality in flight (a bag)

varsV423 == <<objects, sessions, handlers, inflight>>
varsP005 == <<activeSessions, activeTranscriptions, cycles>>
varsP006 == <<sessionLocation, lookups>>
varsP003 == <<activeSessionsP003, runs>>
varsP004 == <<checks>>
vars == <<now, ticks, event, varsV423, varsP005, varsP006, varsP003, varsP004>>

\* The variables of the other programs, which a program never touches.
NotV423 == <<varsP005, varsP006, varsP003, varsP004>>
NotP005 == <<now, ticks, varsV423, varsP006, varsP003, varsP004>>
NotP006 == <<now, ticks, varsV423, varsP005, varsP003, varsP004>>
NotP003 == <<now, ticks, varsV423, varsP005, varsP006, varsP004>>
NotP004 == <<now, ticks, varsV423, varsP005, varsP006, varsP003>>

\* The state of a program that is not running.
IdleV423 ==
  /\ objects = <<>>
  /\ sessions = [s \in Sessions |-> 0]
  /\ handlers = [s \in Sessions |-> 0]
  /\ inflight = EmptyBag
IdleP005 ==
  /\ activeSessions = {}
  /\ activeTranscriptions = [s \in Sessions |-> FALSE]
  /\ cycles = EmptyBag
IdleP006 ==
  /\ sessionLocation = [s \in {} |-> 0]
  /\ lookups = EmptyBag
IdleP003 ==
  /\ activeSessionsP003 = {}
  /\ runs = EmptyBag
IdleP004 == checks = EmptyBag

\* =====================================================================
\* v4.2.3 (src/src/index.ts, second program of the file)
\* =====================================================================
InitV423 ==
  /\ now = 0
  /\ ticks = 0
  /\ event = Event("init", "none", 0, <<>>)
  /\ IdleV423 /\ IdleP005 /\ IdleP006 /\ IdleP003 /\ IdleP004

\* POST /webhook {type: "session_request"}: this.sessions.set(sessionId, {userId})
HandleNewSession(s) ==
  /\ Len(objects) < MaxObjects
  /\ objects' = Append(objects, NewSessionData)
  /\ sessions' = [sessions EXCEPT ![s] = Len(objects) + 1]
  /\ event' = Event("webhook", s, 0, <<>>)
  /\ UNCHANGED <<now, ticks, handlers, inflight, NotV423>>

\* onSession: a new SessionData is put into the map and captured by the
\* handlers it registers; the prompt is shown.
OnSession(s) ==
  /\ handlers[s] = 0
  /\ Len(objects) < MaxObjects
  /\ objects' = Append(objects, NewSessionData)
  /\ sessions' = [sessions EXCEPT ![s] = Len(objects) + 1]
  /\ handlers' = [handlers EXCEPT ![s] = Len(objects) + 1]
  /\ event' = Event("session", s, 0, <<Message("prompt")>>)
  /\ UNCHANGED <<now, ticks, inflight, NotV423>>

\* getCurrentCoordinates
GetCurrentCoordinates(sessionData, currentTime) ==
  IF sessionData.location.present
     /\ currentTime - sessionData.location.timestamp <= LOCATION_MAX_AGE_MS
  THEN [lat |-> sessionData.location.lat, lon |-> sessionData.location.lon]
  ELSE DefaultLocation

\* The tiers getCurrentCoordinates goes through, in order, to produce the
\* coordinate: the stored device coordinate, then tpaConfig.defaultLocation.
\* The function makes no network call.
TiersTried(sessionData, currentTime) ==
  IF sessionData.location.present
     /\ currentTime - sessionData.location.timestamp <= LOCATION_MAX_AGE_MS
  THEN <<"device">>
  ELSE <<"device", "default">>

\* isDefaultLocation of handleAirQualityRequest
IsDefaultLocation(sessionData, t) ==
  \/ ~sessionData.location.present
  \/ t - sessionData.location.timestamp > LOCATION_MAX_AGE_MS

\* Variants of the age tests with a changed comparison.
IsRecentExclusive(ageMs) == ageMs < RECENT_REQUEST_THRESHOLD_MS
IsReusableExclusive(ageMs) == ageMs < AQI_REFRESH_INTERVAL_MS
IsReusableAlways(ageMs) == TRUE

\* The two age tests of handleAirQualityRequest
IsRecent(ageMs) == ageMs <= RECENT_REQUEST_THRESHOLD_MS
IsReusable(ageMs) == ageMs <= AQI_REFRESH_INTERVAL_MS

\* A variant without the session cache.
CacheTierAlwaysFetch(sessionData, t) == "fetch"

\* Which branch handleAirQualityRequest takes at time t.
CacheTier(sessionData, t) ==
  IF ~sessionData.lastAQI.present THEN "fetch"
  ELSE IF IsRecent(t - sessionData.lastAQI.timestamp) THEN "recent"
  ELSE IF IsReusable(t - sessionData.lastAQI.timestamp) THEN "aging"
  ELSE "fetch"

\* `Same as ${Math.floor(ageMs / 1000)}s ago` and `${Math.floor(ageMs / 60000)}m old data`
RecentFreshness(ageMs) == [tag |-> "same_s_ago", n |-> ageMs \div 1000]
AgingFreshness(ageMs) == [tag |-> "m_old_data", n |-> ageMs \div 60000]
CurrentFreshness == [tag |-> "current", n |-> 0]

\* The message shown before the fetch: "Using default location..." or
\* "Checking your location..."
CheckingMessage(isDefault) == [Message("checking") EXCEPT !.isDefaultLocation = isDefault]

\* A variant that keeps one SessionData for all sessions.
SessionsGetShared(sessionId) == sessions["s1"]
\* this.sessions.get(sessionId)
SessionsGet(sessionId) == sessions[sessionId]

\* handleAirQualityRequest up to its first network wait.  msgs are the
\* messages the transcription handler has presented before the call.
HandleAirQualityRequest(s, msgs) ==
  LET obj == SessionsGet(s)
      sessionData == objects[obj]
      coords == GetCurrentCoordinates(sessionData, now)
      isDefault == IsDefaultLocation(sessionData, now)
      tier == CacheTier(sessionData, now)
      ageMs == now - sessionData.lastAQI.timestamp
      request == [sid |-> s, obj |-> obj, now |-> now, coords |-> coords,
                  isDefault |-> isDefault, tiers |-> TiersTried(sessionData, now)]
  IN IF obj = 0
     THEN /\ event' = Event("request", s, 0, msgs)
          /\ UNCHANGED inflight
     ELSE CASE tier = "recent" ->
                 /\ event' = Event("request", s, 0, Append(msgs,
                      ResultMessage(sessionData.lastAQI.data, RecentFreshness(ageMs),
                                    isDefault, now, sessionData.lastAQI.fetchedAt)))
                 /\ UNCHANGED inflight
            [] tier = "aging" ->
                 /\ event' = Event("request", s, 0, Append(msgs,
                      ResultMessage(sessionData.lastAQI.data, AgingFreshness(ageMs),
                                    isDefault, now, sessionData.lastAQI.fetchedAt)))
                 /\ UNCHANGED inflight
            [] tier = "fetch" ->
                 /\ BagCardinality(inflight) < MaxInFlight
                 /\ inflight' = inflight (+) SetToBag({request})
                 /\ event' = Event("request", s, 1, Append(msgs, CheckingMessage(isDefault)))

\* A variant that takes every text as the command.
IncludesVoiceCommandAlways(text) == TRUE
\* text.includes(this.VOICE_COMMAND)
IncludesVoiceCommand(text) == Includes(text, VOICE_COMMAND)

\* A variant that takes every transcript as final.
IsFinalAlways(data) == TRUE
\* data.isFinal
IsFinal(data) == data.isFinal

\* session.events.onTranscription handler
OnTranscription(s, data) ==
  /\ handlers[s] # 0
  /\ LET text == Trim(ToLowerCase(data.text))
     IN IF ~data.hasText \/ data.text = <<>>
        THEN /\ event' = Event("transcription", s, 0, <<Message("no_speech")>>)
             /\ UNCHANGED inflight
        ELSE IF ~IsFinal(data)
        THEN /\ event' = Event("transcription", s, 0, <<Message("processing")>>)
             /\ UNCHANGED inflight
        ELSE IF IncludesVoiceCommand(text)
        THEN HandleAirQualityRequest(s, <<Message("processing")>>)
        ELSE /\ event' = Event("transcription", s, 0,
                             <<Message("processing"), Message("hint")>>)
             /\ UNCHANGED inflight
  /\ UNCHANGED <<now, ticks, objects, sessions, handlers, NotV423>>

\* session.events.onLocation handler
OnLocation(s, location) ==
  /\ handlers[s] # 0
  /\ IF ~Truthy(Field(location, "lat")) \/ ~Truthy(Field(location, "lng"))
     THEN UNCHANGED objects
     ELSE objects' = [objects EXCEPT ![handlers[s]].location =
            [present |-> TRUE, lat |-> Field(location, "lat"),
             lon |-> Field(location, "lng"), timestamp |-> now]]
  /\ event' = Event("location", s, 0, <<>>)
  /\ UNCHANGED <<now, ticks, sessions, handlers, inflight, NotV423>>

\* fetchAQIData after axios.get has answered: a throw, or the station.
FetchThrows(response) ==
  \/ response.kind = "timeout"
  \/ response.status # "ok"
  \/ ~Truthy(response.aqi)

Station(response) ==
  [aqi |-> response.aqi,
   name |-> IF response.city THEN "Testville" ELSE "Nearest Station"]

\* A variant that stamps the cached reading with the time of the attempt
\* even when the provider call failed.
LastAQIAfterFetchTouching(lastAQI, r, response, t) ==
  IF FetchThrows(response)
  THEN [lastAQI EXCEPT !.timestamp = r.now]
  ELSE [present |-> TRUE, data |-> Station(response), timestamp |-> r.now,
        fetchedAt |-> t]

\* sessionData.lastAQI after the provider call of request r has answered at
\* time t: assigned only if fetchAQIData did not throw.
LastAQIAfterFetch(lastAQI, r, response, t) ==
  IF FetchThrows(response)
  THEN lastAQI
  ELSE [present |-> TRUE, data |-> Station(response), timestamp |-> r.now,
        fetchedAt |-> t]

\* The rest of handleAirQualityRequest once the provider call of request r
\* has answered (lines 543-557).
FetchReturn(r, response) ==
  /\ BagIn(r, inflight)
  /\ objects' = [objects EXCEPT ![r.obj].lastAQI =
                   LastAQIAfterFetch(objects[r.obj].lastAQI, r, response, now)]
  /\ IF FetchThrows(response)
     THEN /\ event' = [Event("fetch_failed", r.sid, 0, <<Message("unavailable")>>)
                         EXCEPT !.response = response,
                                !.hadReading = objects[r.obj].lastAQI.present]
     ELSE /\ event' = [Event("fetch_ok", r.sid, 0,
               <<ResultMessage(Station(response), CurrentFreshness, r.isDefault,
                               r.now, now)>>)
                         EXCEPT !.response = response,
                                !.hadReading = objects[r.obj].lastAQI.present]
  /\ inflight' = inflight (-) SetToBag({r})
  /\ UNCHANGED <<now, ticks, sessions, handlers, NotV423>>

\* Time passes.  A provider call is abandoned after API_TIMEOUT_MS, so the
\* clock cannot pass that point while the call is awaited.
Tick(d) ==
  /\ ticks < MaxTicks
  /\ \A r \in BagToSet(inflight) : now + d - r.now <= API_TIMEOUT_MS
  /\ now' = now + d
  /\ ticks' = ticks + 1
  /\ event' = Event("tick", "none", 0, <<>>)
  /\ UNCHANGED <<objects, sessions, handlers, inflight, NotV423>>

NextV423 ==
  \/ \E s \in Sessions : OnSession(s)
  \/ \E s \in Sessions, data \in Transcriptions : OnTranscription(s, data)
  \/ \E s \in Sessions, location \in LocationUpdates : OnLocation(s, location)
  \/ \E r \in BagToSet(inflight), response \in Responses : FetchReturn(r, response)
  \/ \E d \in TickSteps : Tick(d)

SpecV423 == InitV423 /\ [][NextV423]_vars

\* The host ends session s: its handlers are called no more.  onSession
\* registers nothing for the end of a session (no events.onEnd callback, no
\* onStop), so no code of the program runs and this.sessions keeps the entry.
OnStop(s) ==
  /\ handlers[s] # 0
  /\ handlers' = [handlers EXCEPT ![s] = 0]
  /\ event' = Event("stop", s, 0, <<>>)
  /\ UNCHANGED <<now, ticks, objects, sessions, inflight, NotV423>>

\* Two sessions of v4.2.3 at once, which the host starts and ends, each
\* with the same few inputs: the command in a final transcript, one push
\* and two answers of the provider.
SessionPair == {"s1", "s2"}

InitV423Pair ==
  /\ now = 0
  /\ ticks = 0
  /\ event = Event("init", "none", 0, <<>>)
  /\ objects = <<>>
  /\ sessions = [s \in SessionPair |-> 0]
  /\ handlers = [s \in SessionPair |-> 0]
  /\ inflight = EmptyBag
  /\ IdleP005 /\ IdleP006 /\ IdleP003 /\ IdleP004

NextV423Pair ==
  \/ \E s \in SessionPair : OnSession(s)
  \/ \E s \in SessionPair : OnStop(s)
  \/ \E s \in SessionPair :
       OnTranscription(s, [hasText |-> TRUE, text |-> <<"a", "q">>, isFinal |-> TRUE])
  \/ \E s \in SessionPair :
       OnLocation(s, [keys |-> "lat_lng", a |-> Num(10), b |-> Num(10)])
  \/ \E r \in BagToSet(inflight),
        response \in {x \in Responses : x.kind = "timeout" \/ x.aqi = Num(42)} :
       FetchReturn(r, response)

SpecV423Pair == InitV423Pair /\ [][NextV423Pair]_vars

\* v4.2.3 with the POST /webhook route of setupRoutes: a session_request for
\* a session id may arrive before or after the host starts that session.
NextV423Webhook ==
  \/ \E s \in Sessions : HandleNewSession(s)
  \/ \E s \in Sessions : OnSession(s)
  \/ \E s \in Sessions :
       OnTranscription(s, [hasText |-> TRUE, text |-> <<"a", "q">>, isFinal |-> TRUE])
  \/ \E s \in Sessions :
       OnLocation(s, [keys |-> "lat_lng", a |-> Num(10), b |-> Num(10)])
  \/ \E r \in BagToSet(inflight),
        response \in {x \in Responses : x.kind = "timeout" \/ x.aqi = Num(42)} :
       FetchReturn(r, response)
  \/ \E d \in {1, LOCATION_MAX_AGE_MS} : Tick(d)

SpecV423Webhook == InitV423 /\ [][NextV423Webhook]_vars

\* v4.2.3 with every transcription event, one push and two answers of the
\* provider.
NextV423Speech ==
  \/ \E s \in Sessions : OnSession(s)
  \/ \E s \in Sessions, data \in Transcriptions : OnTranscription(s, data)
  \/ \E s \in Sessions :
       OnLocation(s, [keys |-> "lat_lng", a |-> Num(10), b |-> Num(10)])
  \/ \E r \in BagToSet(inflight),
        response \in {x \in Responses : x.kind = "timeout" \/ x.aqi = Num(42)} :
       FetchReturn(r, response)
  \/ \E d \in {1, LOCATION_MAX_AGE_MS} : Tick(d)

SpecV423Speech == InitV423 /\ [][NextV423Speech]_vars

\* =====================================================================
\* v1.1.0 (src/unnamed/part_005): the activeTranscriptions gate
\* =====================================================================
\* this.VOICE_COMMANDS ("aq" stands for "air quality", "p" for "pollution")
VOICE_COMMANDS == {<<"a", "q">>, <<"p">>}

\* A variant that takes a text as a command only when it is one of the
\* phrases, not when it contains one.
IsCommandExact(text) == \E cmd \in VOICE_COMMANDS : text = ToLowerCase(cmd)
\* this.VOICE_COMMANDS.some(cmd => text.includes(cmd.toLowerCase()))
IsCommand(text) == \E cmd \in VOICE_COMMANDS : Includes(text, ToLowerCase(cmd))

\* session.location as the host has set it when a run of checkAirQuality
\* starts.  age is the time in ms since the host set it; the program does
\* not read it.
DeviceLocations == [latitude : {Undefined, Num(0), Num(10)},
                    longitude : {Undefined, Num(10)},
                    age : {0, 30000, 30001}]

\* axios.get('https://ipapi.co/json/'): a timeout or error, or a body
IpResponses == [kind : {"timeout"}, latitude : {Undefined}, longitude : {Undefined}]
               \cup [kind : {"body"}, latitude : {Undefined, Num(0), Num(40)},
                     longitude : {Undefined, Num(40)}]

London == [lat |-> Num(51), lon |-> Num(0)]   \* { lat: 51.5074, lon: -0.1278 }
NoCoords == [lat |-> Undefined, lon |-> Undefined]

\* getApproximateCoords once ipapi has answered
GetApproximateCoords(response) ==
  IF response.kind = "body" /\ Truthy(response.latitude) /\ Truthy(response.longitude)
  THEN [lat |-> response.latitude, lon |-> response.longitude]
  ELSE London

\* A variant of getNearestAQIStation that returns whatever the call gave.
StationNeverThrows(response) == FALSE

\* getNearestAQIStation once the provider has answered: it throws on a
\* timeout and on a status other than "ok".
StationThrows(response) == response.kind = "timeout" \/ response.status # "ok"

\* A run of checkAirQuality: pc tells which promise it awaits.
Cycle(s, origin, pc, coords, failed) ==
  [sid |-> s, origin |-> origin, pc |-> pc, coords |-> coords, failed |-> failed]

\* checkAirQuality up to its first await: the station of the device
\* coordinate is asked for at once, otherwise ipapi is asked first.
StartCheckAirQuality(s, origin, device) ==
  IF Truthy(device.latitude)
  THEN Cycle(s, origin, "station", [lat |-> device.latitude, lon |-> device.longitude], FALSE)
  ELSE Cycle(s, origin, "ip", NoCoords, FALSE)

StationCalls(cycle) == IF cycle.pc = "station" THEN 1 ELSE 0

InitP005 ==
  /\ now = 0
  /\ ticks = 0
  /\ event = Event("init", "none", 0, <<>>)
  /\ IdleV423 /\ IdleP005 /\ IdleP006 /\ IdleP003 /\ IdleP004

\* onSession: the gate is opened, the transcription callback is registered
\* and the first checkAirQuality is started and awaited.
OnSessionP005(s, device) ==
  /\ s \notin activeSessions
  /\ activeSessions' = activeSessions \cup {s}
  /\ activeTranscriptions' = [activeTranscriptions EXCEPT ![s] = TRUE]
  /\ LET c == StartCheckAirQuality(s, "session", device)
     IN /\ cycles' = cycles (+) SetToBag({c})
        /\ event' = [Event("session", s, StationCalls(c), <<>>)
                       EXCEPT !.origin = "session", !.response = device]
  /\ UNCHANGED NotP005

\* A variant of the gate test that lets every transcript through.
GateOpenAlways(s) == TRUE

\* !this.activeTranscriptions.get(sessionId) is false
GateOpen(s) == activeTranscriptions[s]

\* The callback of session.onTranscriptionForLanguage
OnTranscriptionP005(s, text, device) ==
  /\ s \in activeSessions
  /\ IF GateOpen(s) /\ IsCommand(ToLowerCase(text))
     THEN LET c == StartCheckAirQuality(s, "voice", device)
          IN /\ activeTranscriptions' = [activeTranscriptions EXCEPT ![s] = FALSE]
             /\ cycles' = cycles (+) SetToBag({c})
             /\ event' = [Event("utterance", s, StationCalls(c), <<>>)
                            EXCEPT !.text = text, !.origin = "voice",
                                   !.response = device]
     ELSE /\ event' = [Event("utterance", s, 0, <<>>) EXCEPT !.text = text]
          /\ UNCHANGED <<activeTranscriptions, cycles>>
  /\ UNCHANGED <<activeSessions, NotP005>>

\* ipapi has answered: getApproximateCoords returns and the station is asked for.
IpReturn(c, response) ==
  /\ BagIn(c, cycles)
  /\ c.pc = "ip"
  /\ cycles' = (cycles (-) SetToBag({c}))
                 (+) SetToBag({[c EXCEPT !.pc = "station",
                                         !.coords = GetApproximateCoords(response)]})
  /\ event' = [Event("ip_return", c.sid, 1, <<>>) EXCEPT !.origin = c.origin]
  /\ UNCHANGED <<activeSessions, activeTranscriptions, NotP005>>

\* The provider has answered: the result is presented, or the catch block
\* presents "Air quality data unavailable".
StationReturn(c, response) ==
  /\ BagIn(c, cycles)
  /\ c.pc = "station"
  /\ IF StationThrows(response)
     THEN /\ cycles' = (cycles (-) SetToBag({c}))
                         (+) SetToBag({[c EXCEPT !.pc = "show_error", !.failed = TRUE]})
          /\ event' = [Event("station_return", c.sid, 0, <<Message("unavailable")>>)
                         EXCEPT !.response = response, !.origin = c.origin]
     ELSE /\ cycles' = (cycles (-) SetToBag({c}))
                         (+) SetToBag({[c EXCEPT !.pc = "show_result"]})
          /\ event' = [Event("station_return", c.sid, 0,
                         <<ReadingMessage("result", AQI_LEVELS, Station(response))>>)
                         EXCEPT !.response = response, !.origin = c.origin]
  /\ UNCHANGED <<activeSessions, activeTranscriptions, NotP005>>

\* A variant that reopens the gate only after a run that presented a result.
GateAfterCycleOnSuccess(gate, outcome) == IF outcome = "ok" THEN TRUE ELSE gate

\* .catch(console.error).finally(() => this.activeTranscriptions.set(sessionId, true))
GateAfterCycle(gate, outcome) == TRUE

\* How a run ends when the awaited showTextWall settles.
Outcome(c, ok) == IF ~ok THEN "rejected" ELSE IF c.failed THEN "failed" ELSE "ok"

\* The promise of showTextWall has settled.  A rejected presentation of the
\* result enters the catch block; otherwise the run of checkAirQuality is
\* over, and a run started by the transcription callback reopens the gate.
ShowReturn(c, ok) ==
  /\ BagIn(c, cycles)
  /\ c.pc \in {"show_result", "show_error"}
  /\ IF c.pc = "show_result" /\ ~ok
     THEN /\ cycles' = (cycles (-) SetToBag({c}))
                         (+) SetToBag({[c EXCEPT !.pc = "show_error", !.failed = TRUE]})
          /\ event' = [Event("show_return", c.sid, 0, <<Message("unavailable")>>)
                         EXCEPT !.origin = c.origin]
          /\ UNCHANGED activeTranscriptions
     ELSE /\ cycles' = cycles (-) SetToBag({c})
          /\ event' = [Event("complete", c.sid, 0, <<>>)
                         EXCEPT !.origin = c.origin, !.outcome = Outcome(c, ok)]
          /\ activeTranscriptions' =
               IF c.origin = "voice"
               THEN [activeTranscriptions EXCEPT ![c.sid] =
                       GateAfterCycle(activeTranscriptions[c.sid], Outcome(c, ok))]
               ELSE activeTranscriptions
  /\ UNCHANGED <<activeSessions, NotP005>>

\* A step of the run c of checkAirQuality
CycleStep(c) ==
  \/ \E response \in IpResponses : IpReturn(c, response)
  \/ \E response \in Responses : StationReturn(c, response)
  \/ \E ok \in BOOLEAN : ShowReturn(c, ok)

NextP005 ==
  \/ \E s \in Sessions, device \in DeviceLocations : OnSessionP005(s, device)
  \/ \E s \in Sessions, text \in Texts, device \in DeviceLocations :
       OnTranscriptionP005(s, text, device)
  \/ \E c \in BagToSet(cycles), response \in IpResponses : IpReturn(c, response)
  \/ \E c \in BagToSet(cycles), response \in Responses : StationReturn(c, response)
  \/ \E c \in BagToSet(cycles), ok \in BOOLEAN : ShowReturn(c, ok)

SpecP005 == InitP005 /\ [][NextP005]_vars

\* Every awaited call settles: axios has a timeout (3000 ms, 2000 ms) and the
\* host settles the promise of showTextWall.
FairP005 ==
  \A origin \in {"session", "voice"} :
    WF_vars(\E c \in BagToSet(cycles) : c.origin = origin /\ CycleStep(c))

LiveP005 == SpecP005 /\ FairP005

\* =====================================================================
\* The variant whose location handler does the lookup (src/unnamed/part_006
\* lines 1-84 with src/src/services/airQualityService.ts)
\* =====================================================================
\* LocationUpdate objects the host pushes (src/src/types/types.ts)
LocationPushes == [keys : {"lat_lon", "latitude_longitude"},
                   a : {Undefined, Num(0), Num(10), Num(20), Num(95)},
                   b : {Undefined, Num(10), Num(20)}]

\* session.location: absent until the first accepted push
NoSessionLocation == [present |-> FALSE, latitude |-> Undefined, longitude |-> Undefined]

\* getNearestAQIStation throws when fetch rejects, when the body's status is
\* not "ok" and when the aqi is not a number.
GetNearestAQIStationThrows(response) ==
  ~(response.kind = "body" /\ response.status = "ok" /\ response.aqi.type = "number")

\* Answers of the provider to getNearestAQIStation: those of Responses and
\* bodies with an index at and next to the thresholds of the levels.
StationResponses ==
  Responses
  \cup [kind : {"body"}, status : {"ok"}, city : {TRUE},
        aqi : {Str, Num(50), Num(51), Num(100), Num(101), Num(150), Num(151),
               Num(200), Num(201), Num(300), Num(301), Num(500), Num(501)}]

\* The AQIStationData getNearestAQIStation returns
StationData(response) ==
  [aqi |-> response.aqi,
   name |-> IF response.city THEN "Testville" ELSE "Unknown Station"]

\* !location?.latitude || !location?.longitude
InvalidCoordinates(latitude, longitude) == ~Truthy(latitude) \/ ~Truthy(longitude)

InitP006 ==
  /\ now = 0
  /\ ticks = 0
  /\ event = Event("init", "none", 0, <<>>)
  /\ IdleV423 /\ IdleP005 /\ IdleP006 /\ IdleP003 /\ IdleP004

\* onSession: the two handlers are registered on the new session.
OnSessionP006(s) ==
  /\ s \notin DOMAIN sessionLocation
  /\ sessionLocation' = [t \in DOMAIN sessionLocation \cup {s} |->
                           IF t = s THEN NoSessionLocation ELSE sessionLocation[t]]
  /\ event' = Event("session", s, 0, <<>>)
  /\ UNCHANGED <<lookups, NotP006>>

\* The location handler up to its first await, for the event named op that
\* delivered the coordinates.
LocationHandler(s, op, latitude, longitude) ==
  IF InvalidCoordinates(latitude, longitude)
  THEN /\ event' = Event(op, s, 0, <<Message("couldnt_determine")>>)
       /\ UNCHANGED <<sessionLocation, lookups>>
  ELSE /\ BagCardinality(lookups) < MaxInFlight
       /\ sessionLocation' = [sessionLocation EXCEPT ![s] =
            [present |-> TRUE, latitude |-> latitude, longitude |-> longitude]]
       /\ lookups' = lookups (+) SetToBag({[sid |-> s, latitude |-> latitude,
                                             longitude |-> longitude,
                                             started |-> now]})
       /\ event' = Event(op, s, 1, <<>>)

\* session.events.onLocation: a push of the host
OnLocationP006(s, update) ==
  /\ s \in DOMAIN sessionLocation
  /\ LocationHandler(s, "location", Field(update, "latitude"), Field(update, "longitude"))
  /\ UNCHANGED NotP006

\* session.onTranscriptionForLanguage: a command either shows the waiting
\* text or emits a 'location' event carrying session.location.
OnTranscriptionP006(s, text) ==
  /\ s \in DOMAIN sessionLocation
  /\ IF ~IsCommand(ToLowerCase(text))
     THEN /\ event' = [Event("utterance", s, 0, <<>>) EXCEPT !.text = text]
          /\ UNCHANGED <<sessionLocation, lookups>>
     ELSE IF ~sessionLocation[s].present
     THEN /\ event' = [Event("utterance", s, 0, <<Message("waiting_for_location")>>)
                         EXCEPT !.text = text]
          /\ UNCHANGED <<sessionLocation, lookups>>
     ELSE /\ LocationHandler(s, "emit", sessionLocation[s].latitude,
                             sessionLocation[s].longitude)
  /\ UNCHANGED NotP006

\* The rest of the location handler once the provider has answered: the
\* reading is shown, or the catch block shows the error text.
StationReturnP006(l, response) ==
  /\ BagIn(l, lookups)
  /\ lookups' = lookups (-) SetToBag({l})
  /\ event' = [Event("lookup_done", l.sid, 0,
                     IF GetNearestAQIStationThrows(response)
                     THEN <<Message("couldnt_determine")>>
                     ELSE <<ReadingMessage("reading", AQI_LEVELS_TYPES,
                                           StationData(response))>>)
                 EXCEPT !.response = response]
  /\ UNCHANGED <<sessionLocation, NotP006>>

\* Steps of the clock while this variant runs
TickStepsP006 == {20000}

\* Time passes.  fetch is called without a signal or a timeout, so no
\* deadline of the code stops the clock while a call is unanswered.
TickP006(d) ==
  /\ ticks < MaxWait
  /\ now' = now + d
  /\ ticks' = ticks + 1
  /\ event' = Event("tick", "none", 0, <<>>)
  /\ UNCHANGED <<varsV423, varsP005, varsP006, varsP003, varsP004>>

NextP006 ==
  \/ \E s \in Sessions : OnSessionP006(s)
  \/ \E s \in Sessions, update \in LocationPushes : OnLocationP006(s, update)
  \/ \E s \in Sessions, text \in Texts : OnTranscriptionP006(s, text)
  \/ \E l \in BagToSet(lookups), response \in StationResponses :
       StationReturnP006(l, response)
  \/ \E d \in TickStepsP006 : TickP006(d)

SpecP006 == InitP006 /\ [][NextP006]_vars

\* ---------------------------------------------------------------------
\* src/src - Copy/index.ts: the same two handlers, with a location handler
\* that reads both key conventions and a voice handler that tests the axes
\* of the stored location
\* ---------------------------------------------------------------------
\* The location handler up to its first await: lat and lon are
\* `coords.lat ?? coords.latitude` and `coords.lon ?? coords.longitude`;
\* msgs are the messages presented before the event was delivered.
LocationHandlerCopy(s, op, lat, lon, msgs) ==
  IF lat = Undefined \/ lon = Undefined
  THEN /\ event' = Event(op, s, 0, Append(msgs, Message("couldnt_determine")))
       /\ UNCHANGED <<sessionLocation, lookups>>
  ELSE /\ BagCardinality(lookups) < MaxInFlight
       /\ sessionLocation' = [sessionLocation EXCEPT ![s] =
            [present |-> TRUE, latitude |-> lat, longitude |-> lon]]
       /\ lookups' = lookups (+) SetToBag({[sid |-> s, latitude |-> lat,
                                             longitude |-> lon, started |-> now]})
       /\ event' = Event(op, s, 1, msgs)

\* session.events.onLocation: a push of the host
OnLocationCopy(s, update) ==
  /\ s \in DOMAIN sessionLocation
  /\ LocationHandlerCopy(s, "location",
        IF Field(update, "lat") # Undefined THEN Field(update, "lat")
        ELSE Field(update, "latitude"),
        IF Field(update, "lon") # Undefined THEN Field(update, "lon")
        ELSE Field(update, "longitude"), <<>>)
  /\ UNCHANGED NotP006

\* session.onTranscriptionForLanguage: a command shows the loading text and
\* then, if `session.location?.latitude && session.location?.longitude`,
\* emits a 'location' event with the stored axes as {lat, lon}; otherwise it
\* shows the waiting text.
OnTranscriptionCopy(s, text) ==
  /\ s \in DOMAIN sessionLocation
  /\ IF ~IsCommand(ToLowerCase(text))
     THEN /\ event' = [Event("utterance", s, 0, <<>>) EXCEPT !.text = text]
          /\ UNCHANGED <<sessionLocation, lookups>>
     ELSE IF Truthy(sessionLocation[s].latitude) /\ Truthy(sessionLocation[s].longitude)
     THEN LocationHandlerCopy(s, "emit", sessionLocation[s].latitude,
                              sessionLocation[s].longitude, <<Message("checking")>>)
     ELSE /\ event' = [Event("utterance", s, 0,
                          <<Message("checking"), Message("waiting_for_location")>>)
                         EXCEPT !.text = text]
          /\ UNCHANGED <<sessionLocation, lookups>>
  /\ UNCHANGED NotP006

NextCopy ==
  \/ \E s \in Sessions : OnSessionP006(s)
  \/ \E s \in Sessions, update \in LocationPushes : OnLocationCopy(s, update)
  \/ \E s \in Sessions, text \in Texts : OnTranscriptionCopy(s, text)
  \/ \E l \in BagToSet(lookups), response \in StationResponses :
       StationReturnP006(l, response)

SpecCopy == InitP006 /\ [][NextCopy]_vars

\* =====================================================================
\* The variant with the location fallback chain (src/unnamed/part_003)
\* =====================================================================
\* this.voiceCommands ("aq" stands for "air quality", "p" for "pollution")
voiceCommands == {<<"a", "q">>, <<"p">>}

\* this.voiceCommands.some(cmd => transcript.includes(cmd.toLowerCase()))
IsVoiceCommand(transcript) ==
  \E cmd \in voiceCommands : Includes(transcript, ToLowerCase(cmd))

\* How the race of session.getUserLocation() against the 15 s timer
\* settles: the timer rejects, the call rejects, or the call resolves with
\* null or with an object holding latitude and longitude.
UserLocations ==
  [kind : {"timeout", "rejected", "null"}, latitude : {Undefined}, longitude : {Undefined}]
  \cup [kind : {"value"},
        latitude : {Undefined, NaN, Num(0), Num(10), Num(95), Num(-95)},
        longitude : {Undefined, Num(0), Num(10), Num(185)}]

\* Math.abs
Abs(n) == IF n < 0 THEN -n ELSE n

\* The test of checkAirQuality that throws `Invalid location`
InvalidLocation(location) ==
  \/ location.kind = "null"
  \/ ~Truthy(location.latitude)
  \/ ~Truthy(location.longitude)
  \/ Abs(location.latitude.value) > 90
  \/ Abs(location.longitude.value) > 180

\* { latitude: 51.5074, longitude: -0.1278 }
LondonP003 == [latitude |-> Num(51), longitude |-> Num(0)]
NoLocationP003 == [latitude |-> Undefined, longitude |-> Undefined]

\* A variant that looks at the latitude of the body only.
IpAnsweredLatitudeOnly(response) ==
  response.kind = "body" /\ Truthy(response.latitude)
\* getApproximateLocation once ipapi has answered; it never throws.
IpAnswered(response) ==
  response.kind = "body" /\ Truthy(response.latitude) /\ Truthy(response.longitude)
\* A variant of getApproximateLocation that trusts every body ipapi sends.
GetApproximateLocationAnyBody(response) ==
  IF response.kind = "body"
  THEN [latitude |-> response.latitude, longitude |-> response.longitude]
  ELSE LondonP003

GetApproximateLocation(response) ==
  IF IpAnswered(response)
  THEN [latitude |-> response.latitude, longitude |-> response.longitude]
  ELSE LondonP003

\* fetchAQI throws on a timeout, on a status other than "ok" and on an aqi
\* that is not a number.
FetchAQIThrows(response) ==
  \/ response.kind = "timeout"
  \/ response.status # "ok"
  \/ response.aqi.type # "number"

\* A run of checkAirQuality.  tier is the block of the function the run is
\* in: "precise" (the try block), "fallback" (the catch block) or "last"
\* (the inner catch block); pc is the promise it awaits; location is the
\* coordinate it works with and source tells where that coordinate came from;
\* fetches counts the calls of fetchAQI the run has made.
Run(s, origin, tier, pc, location, source) ==
  [sid |-> s, origin |-> origin, tier |-> tier, pc |-> pc,
   location |-> location, source |-> source, fetches |-> 0]

\* checkAirQuality up to its first await
StartCheckAirQualityP003(s, origin) ==
  Run(s, origin, "precise", "location", NoLocationP003, "none")

\* A step of a run, as the event records it
EventP003(op, r, calls, msgs, answer) ==
  [Event(op, r.sid, calls, msgs) EXCEPT !.response = answer, !.origin = r.origin]

InitP003 ==
  /\ now = 0
  /\ ticks = 0
  /\ event = Event("init", "none", 0, <<>>)
  /\ IdleV423 /\ IdleP005 /\ IdleP006 /\ IdleP003 /\ IdleP004

\* onSession: the transcription callback is registered and the first run
\* of checkAirQuality is awaited.
OnSessionP003(s) ==
  /\ s \notin activeSessionsP003
  /\ BagCardinality(runs) < MaxRuns
  /\ activeSessionsP003' = activeSessionsP003 \cup {s}
  /\ runs' = runs (+) SetToBag({StartCheckAirQualityP003(s, "session")})
  /\ event' = [Event("session", s, 0, <<>>) EXCEPT !.origin = "session"]
  /\ UNCHANGED NotP003

\* The callback of session.onTranscriptionForLanguage
OnTranscriptionP003(s, text) ==
  /\ s \in activeSessionsP003
  /\ IF IsVoiceCommand(ToLowerCase(text))
     THEN /\ BagCardinality(runs) < MaxRuns
          /\ runs' = runs (+) SetToBag({StartCheckAirQualityP003(s, "voice")})
          /\ event' = [Event("utterance", s, 0, <<>>)
                         EXCEPT !.text = text, !.origin = "voice"]
     ELSE /\ event' = [Event("utterance", s, 0, <<>>) EXCEPT !.text = text]
          /\ UNCHANGED runs
  /\ UNCHANGED <<activeSessionsP003, NotP003>>

\* The run r continues as r2.
Continue(r, r2) == runs' = (runs (-) SetToBag({r})) (+) SetToBag({r2})

\* The race for the precise location has settled: a valid location is
\* reverse-geocoded, anything else enters the catch block, which asks ipapi.
LocationReturn(r, location) ==
  /\ BagIn(r, runs)
  /\ r.pc = "location"
  /\ IF location.kind \in {"timeout", "rejected"} \/ InvalidLocation(location)
     THEN Continue(r, [r EXCEPT !.tier = "fallback", !.pc = "ip"])
     ELSE Continue(r, [r EXCEPT !.pc = "geocode", !.source = "device",
                         !.location = [latitude |-> location.latitude,
                                       longitude |-> location.longitude]])
  /\ event' = EventP003("location_return", r, 0, <<>>, location)
  /\ UNCHANGED <<activeSessionsP003, NotP003>>

\* ipapi has answered: getApproximateLocation returns its coordinate or London.
IpReturnP003(r, response) ==
  /\ BagIn(r, runs)
  /\ r.pc = "ip"
  /\ Continue(r, [r EXCEPT !.pc = "geocode",
                           !.location = GetApproximateLocation(response),
                           !.source = IF IpAnswered(response) THEN "ip" ELSE "default"])
  /\ event' = EventP003("ip_return", r, 0, <<>>, response)
  /\ UNCHANGED <<activeSessionsP003, NotP003>>

\* The name reverseGeocode returns: a name of the address, or 'Your area'
\* when the geocoder timed out or failed.
ReverseGeocode(found) == IF found THEN "city" ELSE "Your area"

\* A variant of reverseGeocode that lets the failure of the geocoder out.
ReverseGeocodeRethrows(found) == ~found
\* reverseGeocode catches every failure of the geocoder: it never throws.
ReverseGeocodeThrows(found) == FALSE

\* reverseGeocode has settled.  With a name, checkAirQualityForLocation
\* presents "Checking air quality..."; a throw would leave the block of
\* checkAirQuality that awaits it (reverseGeocode is not called in the
\* inner catch block).
GeocodeReturn(r, found) ==
  /\ BagIn(r, runs)
  /\ r.pc = "geocode"
  /\ IF ~ReverseGeocodeThrows(found)
     THEN /\ Continue(r, [r EXCEPT !.pc = "checking"])
          /\ event' = EventP003("geocode_return", r, 0, <<Message("checking")>>,
                                [kind |-> "place", name |-> ReverseGeocode(found)])
     ELSE IF r.tier = "precise"
     THEN /\ Continue(r, [r EXCEPT !.tier = "fallback", !.pc = "ip"])
          /\ event' = EventP003("geocode_return", r, 0, <<>>, NoResponse)
     ELSE /\ Continue(r, [r EXCEPT !.tier = "last", !.pc = "checking",
                                   !.location = LondonP003, !.source = "default"])
          /\ event' = EventP003("geocode_return", r, 0, <<Message("checking")>>,
                                NoResponse)
  /\ UNCHANGED <<activeSessionsP003, NotP003>>

\* "Checking air quality..." has settled: fetchAQI is called, or the catch
\* block of checkAirQualityForLocation presents the failure text.
CheckingReturn(r, ok) ==
  /\ BagIn(r, runs)
  /\ r.pc = "checking"
  /\ IF ok
     THEN /\ Continue(r, [r EXCEPT !.pc = "fetch", !.fetches = @ + 1])
          /\ event' = EventP003("checking_return", r, 1, <<>>, NoResponse)
     ELSE /\ Continue(r, [r EXCEPT !.pc = "show_failure"])
          /\ event' = EventP003("checking_return", r, 0, <<Message("failed_to_get")>>,
                                NoResponse)
  /\ UNCHANGED <<activeSessionsP003, NotP003>>

\* Whether the place name handed to checkAirQualityForLocation tells that
\* the default is in use: only the inner catch block passes
\* 'London (fallback)'; the other blocks pass the name reverseGeocode
\* returned for the coordinate, whatever its source.
NamesFallback(r) == r.tier = "last"

\* The provider has answered: the reading is presented, or the failure text.
FetchReturnP003(r, response) ==
  /\ BagIn(r, runs)
  /\ r.pc = "fetch"
  /\ IF FetchAQIThrows(response)
     THEN /\ Continue(r, [r EXCEPT !.pc = "show_failure"])
          /\ event' = EventP003("fetch_return", r, 0, <<Message("failed_to_get")>>,
                                response)
     ELSE /\ Continue(r, [r EXCEPT !.pc = "show_result"])
          /\ event' = EventP003("fetch_return", r, 0,
                         <<[ReadingMessage("result", AQI_LEVELS, Station(response))
                              EXCEPT !.isDefaultLocation = NamesFallback(r)]>>,
                         response)
  /\ UNCHANGED <<activeSessionsP003, NotP003>>

\* The run is over.  When the first run of a session rejects, the catch
\* block of onSession presents "Failed to check air quality".
Finish(r, outcome) ==
  /\ runs' = runs (-) SetToBag({r})
  /\ event' = [EventP003("complete", r, 0,
                         IF outcome = "rejected" /\ r.origin = "session"
                         THEN <<Message("failed_to_check")>> ELSE <<>>,
                         NoResponse)
                 EXCEPT !.outcome = outcome]

\* The presentation of the reading or of the failure text has settled.  A
\* rejected presentation of the reading enters the catch block of
\* checkAirQualityForLocation; a rejected presentation of the failure text
\* makes checkAirQualityForLocation throw into the block of checkAirQuality
\* that called it.
ShowReturnP003(r, ok) ==
  /\ BagIn(r, runs)
  /\ r.pc \in {"show_result", "show_failure"}
  /\ IF ok
     THEN Finish(r, IF r.pc = "show_result" THEN "ok" ELSE "failed")
     ELSE IF r.pc = "show_result"
     THEN /\ Continue(r, [r EXCEPT !.pc = "show_failure"])
          /\ event' = EventP003("show_return", r, 0, <<Message("failed_to_get")>>,
                                NoResponse)
     ELSE IF r.tier = "precise"
     THEN /\ Continue(r, [r EXCEPT !.tier = "fallback", !.pc = "ip"])
          /\ event' = EventP003("show_return", r, 0, <<>>, NoResponse)
     ELSE IF r.tier = "fallback"
     THEN /\ Continue(r, [r EXCEPT !.tier = "last", !.pc = "checking",
                                   !.location = LondonP003, !.source = "default"])
          /\ event' = EventP003("show_return", r, 0, <<Message("checking")>>, NoResponse)
     ELSE Finish(r, "rejected")
  /\ UNCHANGED <<activeSessionsP003, NotP003>>

NextP003 ==
  \/ \E s \in Sessions : OnSessionP003(s)
  \/ \E s \in Sessions, text \in Texts : OnTranscriptionP003(s, text)
  \/ \E r \in BagToSet(runs), location \in UserLocations : LocationReturn(r, location)
  \/ \E r \in BagToSet(runs), response \in IpResponses : IpReturnP003(r, response)
  \/ \E r \in BagToSet(runs), found \in BOOLEAN : GeocodeReturn(r, found)
  \/ \E r \in BagToSet(runs), ok \in BOOLEAN : CheckingReturn(r, ok)
  \/ \E r \in BagToSet(runs), response \in Responses : FetchReturnP003(r, response)
  \/ \E r \in BagToSet(runs), ok \in BOOLEAN : ShowReturnP003(r, ok)

SpecP003 == InitP003 /\ [][NextP003]_vars

\* =====================================================================
\* src/unnamed/part_004: checkAirQuality with a catch block that rethrows
\* =====================================================================
InitP004 ==
  /\ now = 0
  /\ ticks = 0
  /\ event = Event("init", "none", 0, <<>>)
  /\ IdleV423 /\ IdleP005 /\ IdleP006 /\ IdleP003 /\ IdleP004

\* A run of checkAirQuality: origin is the caller that awaits it (onSession
\* or a voice-command callback), pc the promise the run awaits.
CheckP004(s, origin, pc) == [sid |-> s, origin |-> origin, pc |-> pc]

\* onSession: setupVoiceCommands, then `await this.checkAirQuality(session)`,
\* which shows "Checking air quality..." and starts the race for the
\* location.
OnSessionP004(s) ==
  /\ BagCardinality(checks) < MaxInFlight
  /\ checks' = checks (+) SetToBag({CheckP004(s, "session", "location")})
  /\ event' = [Event("session", s, 0, <<Message("checking")>>) EXCEPT !.origin = "session"]
  /\ UNCHANGED NotP004

\* The callback setupVoiceCommands registers for each of its commands
OnVoiceCommandP004(s) ==
  /\ BagCardinality(checks) < MaxInFlight
  /\ checks' = checks (+) SetToBag({CheckP004(s, "voice", "location")})
  /\ event' = [Event("voice", s, 0, <<Message("checking")>>) EXCEPT !.origin = "voice"]
  /\ UNCHANGED NotP004

\* A variant whose catch block does not rethrow.
CheckAirQualityCatchQuiet(origin) == <<Message("couldnt_get")>>
\* The catch block of checkAirQuality presents "Sorry, couldn't get air
\* quality data" and rethrows the error to its caller, whose catch block
\* presents a text of its own: "Session error - please try again" in
\* onSession, "Sorry, I couldn't check air quality" in a voice-command
\* callback.
CheckAirQualityCatch(origin) ==
  <<Message("couldnt_get"),
    IF origin = "session" THEN Message("session_error") ELSE Message("couldnt_check")>>

\* The race against the 5 s timer rejects, or the location fails the test
\* `!location?.latitude || !location?.longitude`.
InvalidLocationP004(location) ==
  \/ location.kind # "value"
  \/ ~Truthy(location.latitude) \/ ~Truthy(location.longitude)

\* The race for the location has settled: fetchAQI is called, or "Location
\* timeout" / "Invalid location data" is thrown into the catch block.
LocationReturnP004(c, location) ==
  /\ BagIn(c, checks)
  /\ c.pc = "location"
  /\ IF InvalidLocationP004(location)
     THEN /\ checks' = checks (-) SetToBag({c})
          /\ event' = [Event("location_return", c.sid, 0, CheckAirQualityCatch(c.origin))
                         EXCEPT !.origin = c.origin, !.outcome = "failed"]
     ELSE /\ checks' = (checks (-) SetToBag({c})) (+) SetToBag({[c EXCEPT !.pc = "fetch"]})
          /\ event' = [Event("location_return", c.sid, 1, <<>>) EXCEPT !.origin = c.origin]
  /\ UNCHANGED NotP004

\* fetchAQI throws 'Air quality service unavailable' on a timeout and on a
\* status other than "ok"; it does not look at the aqi.
FetchAQIThrowsP004(response) == response.kind # "body" \/ response.status # "ok"

\* The provider has answered: the reading is presented; a throw of fetchAQI,
\* or of `aqiData.city.name` for a body without city, enters the catch block.
FetchReturnP004(c, response) ==
  /\ BagIn(c, checks)
  /\ c.pc = "fetch"
  /\ checks' = checks (-) SetToBag({c})
  /\ IF FetchAQIThrowsP004(response) \/ ~response.city
     THEN event' = [Event("fetch_return", c.sid, 0, CheckAirQualityCatch(c.origin))
                      EXCEPT !.response = response, !.origin = c.origin,
                             !.outcome = "failed"]
     ELSE event' = [Event("fetch_return", c.sid, 0,
                      <<ReadingMessage("result", AQI_LEVELS, Station(response))>>)
                      EXCEPT !.response = response, !.origin = c.origin,
                             !.outcome = "ok"]
  /\ UNCHANGED NotP004

NextP004 ==
  \/ \E s \in Sessions : OnSessionP004(s)
  \/ \E s \in Sessions : OnVoiceCommandP004(s)
  \/ \E c \in BagToSet(checks), location \in UserLocations : LocationReturnP004(c, location)
  \/ \E c \in BagToSet(checks), response \in Responses : FetchReturnP004(c, response)

SpecP004 == InitP004 /\ [][NextP004]_vars

\* =====================================================================
\* Classification alone: getQualityLevel applied to one index after another
\* =====================================================================
\* The largest index classified; the last finite threshold is 500.
MaxIndex == 510
IndexValues == {Num(i) : i \in -1..MaxIndex}

\* The two tables of the repository, by name
LevelTables == [AQI_LEVELS |-> AQI_LEVELS, AQI_LEVELS_TYPES |-> AQI_LEVELS_TYPES]

InitClassify == InitP004

\* One call of getQualityLevel with the given table: the event holds the
\* index and the label of the level returned.
GetQualityLevelCall(table, aqi) ==
  /\ event' = [Event("classify", "none", 0,
                <<ReadingMessage("reading", LevelTables[table], [aqi |-> aqi, name |-> "none"])>>)
                EXCEPT !.origin = table]
  /\ UNCHANGED <<now, ticks, varsV423, varsP005, varsP006, varsP003, varsP004>>

NextClassify == \E table \in DOMAIN LevelTables, aqi \in IndexValues : GetQualityLevelCall(table, aqi)

SpecClassify == InitClassify /\ [][NextClassify]_vars

\* =====================================================================
\* Properties of the gate of v1.1.0 (SpecP005, LiveP005)
\* =====================================================================
\* The runs of checkAirQuality of session s that are in flight
RunsOf(s) == {c \in BagToSet(cycles) : c.sid = s}
\* The lowercased text contains a phrase of the command list.
IsRecognized(text) ==
  \E phrase \in {<<"a", "q">>, <<"p">>} : Includes(ToLowerCase(text), phrase)

\* C1: for every session at most one lookup cycle is in flight, also while
\* the cycle of the session start is running.
C1_SingleCycle ==
  \A s \in Sessions :
    /\ Cardinality(RunsOf(s)) <= 1
    /\ \A c \in RunsOf(s) : CopiesIn(c, cycles) <= 1

\* C2: a recognized utterance that finds the gate open closes it and starts
\* one cycle; one that finds the gate closed changes nothing and calls no
\* provider; and no step other than a session start or an utterance ever
\* adds a cycle, so nothing is started later on behalf of an ignored one.
C2_GateIgnoresWhileProcessing ==
  [][/\ \A s \in Sessions :
          (event'.op = "utterance" /\ event'.sid = s /\ IsRecognized(event'.text))
          => IF activeTranscriptions[s]
             THEN /\ ~activeTranscriptions'[s]
                  /\ BagCardinality(cycles') = BagCardinality(cycles) + 1
                  /\ \E c \in BagToSet(cycles') :
                       /\ c.sid = s /\ c.origin = "voice"
                       /\ cycles' = cycles (+) SetToBag({c})
             ELSE /\ cycles' = cycles
                  /\ activeTranscriptions' = activeTranscriptions
                  /\ event'.calls = 0
                  /\ event'.msgs = <<>>
     /\ event'.op \notin {"utterance", "session"}
          => BagCardinality(cycles') <= BagCardinality(cycles)]_vars

\* A recognized utterance has been ignored while a cycle started by an
\* earlier utterance is in flight.
C2_Witness ==
  /\ event.op = "utterance" /\ IsRecognized(event.text)
  /\ event.origin = "none" /\ event.calls = 0
  /\ ~activeTranscriptions[event.sid]
  /\ \E c \in RunsOf(event.sid) : c.origin = "voice"

\* C3: after a cycle has completed the gate is in Cooldown; a recognized
\* utterance handled next, before anything else happens, starts no cycle.
C3_CooldownAfterCycle ==
  [][(/\ event.op = "complete"
      /\ event'.op = "utterance" /\ event'.sid = event.sid
      /\ IsRecognized(event'.text))
     => BagCardinality(cycles') = BagCardinality(cycles)]_vars

\* C4: whenever the gate of a session is closed it is open again later,
\* whatever the outcome of the cycle that closed it.
C4_GateReopens ==
  \A s \in Sessions :
    (s \in activeSessions /\ ~activeTranscriptions[s]) ~> activeTranscriptions[s]

\* A cycle started by an utterance has ended after a failure (the provider
\* call failed or a presentation was rejected) and the gate is open.
C4_Witness ==
  /\ event.op = "complete" /\ event.origin = "voice"
  /\ event.outcome \in {"failed", "rejected"}
  /\ activeTranscriptions[event.sid]
  /\ RunsOf(event.sid) = {}

\* C14: a run of checkAirQuality works with the device coordinate only if
\* the host set that coordinate at most 30 seconds before the run started.
C14_DeviceCoordinateFresh ==
  [][(/\ event'.op \in {"session", "utterance"}
      /\ event'.origin \in {"session", "voice"}
      /\ event'.calls = 1)
     => event'.response.age <= 30000]_vars

\* The provider's answer has the expected shape: a body with status "ok"
\* and a numeric index.
HasNumericIndex(response) ==
  response.kind = "body" /\ response.status = "ok" /\ response.aqi.type = "number"

\* C18: when the provider call times out, answers with a status other than
\* "ok", or answers without a numeric index, the fetch fails: the run
\* presents the 'unavailable' text only, and no reading with a non-numeric
\* index is ever presented or given a quality label.
C18_FetchFailsOnBadAnswer ==
  /\ (event.op = "station_return" /\ ~HasNumericIndex(event.response))
     => event.msgs = <<Message("unavailable")>>
  /\ \A n \in 1..Len(event.msgs) :
       event.msgs[n].kind = "result"
       => event.msgs[n].data.aqi.type = "number"

\* C20: every run of checkAirQuality that is waiting for ipapi or for the
\* provider is followed by a presentation for that run; the presentation
\* is the reading when the provider gave one and the 'unavailable' text
\* when the call timed out or failed; and a run ends only after it has
\* presented, the session staying active.
C20_CycleEventuallyPresents ==
  /\ \A s \in Sessions, origin \in {"session", "voice"} :
       (\E c \in BagToSet(cycles) :
          c.sid = s /\ c.origin = origin /\ c.pc \in {"ip", "station"})
       ~> (/\ event.op = "station_return" /\ event.sid = s /\ event.origin = origin
           /\ Len(event.msgs) = 1
           /\ event.msgs[1].kind \in {"result", "unavailable"})
  /\ [](event.op = "station_return"
        => /\ (event.response.kind = "timeout" \/ event.response.status # "ok")
              => event.msgs = <<Message("unavailable")>>
           /\ HasNumericIndex(event.response)
              => (Len(event.msgs) = 1 /\ event.msgs[1].kind = "result"
                  /\ event.msgs[1].data.aqi = event.response.aqi)
           /\ event.sid \in activeSessions)
  /\ [][event'.op = "complete"
        => /\ \E c \in BagToSet(cycles) :
                /\ c.pc \in {"show_result", "show_error"}
                /\ cycles' = cycles (-) SetToBag({c})
           /\ activeSessions' = activeSessions]_vars

\* The provider call of a run has timed out and the run presents the
\* 'unavailable' text; the session is still active.
C20_Witness ==
  /\ event.op = "station_return" /\ event.response.kind = "timeout"
  /\ event.msgs = <<Message("unavailable")>>
  /\ event.sid \in activeSessions
  /\ \E c \in BagToSet(cycles) : c.sid = event.sid /\ c.pc = "show_error"

\* C24: an utterance that finds the gate open starts a cycle exactly when
\* its lowercased text contains a phrase of the command list: every text
\* containing a listed phrase is recognized, whatever its case and whatever
\* surrounds the phrase, and a text containing none is not.
C24_RecognizedIffContainsPhrase ==
  [][(event'.op = "utterance" /\ activeTranscriptions[event'.sid])
     => /\ IsRecognized(event'.text)
             <=> (/\ BagCardinality(cycles') = BagCardinality(cycles) + 1
                  /\ event'.origin = "voice")
        /\ ~IsRecognized(event'.text) => cycles' = cycles]_vars

\* An utterance in upper case that holds a phrase inside a longer text has
\* started a cycle, and the gate is closed.
C24_Witness ==
  /\ event.op = "utterance" /\ event.origin = "voice"
  /\ event.text = <<" ", "x", "A", "q", " ">>
  /\ ~activeTranscriptions[event.sid]
  /\ \E c \in RunsOf(event.sid) : c.origin = "voice"

\* =====================================================================
\* Properties of the location fallback chain (SpecP003)
\* =====================================================================
\* The device tier failed: the race timed out or rejected, or it gave no
\* location or one with an absent, NaN or out-of-range axis.
DeviceTierFailed(location) ==
  \/ location.kind \in {"timeout", "rejected", "null"}
  \/ location.latitude.type # "number" \/ location.longitude.type # "number"
  \/ location.latitude.value > 90 \/ location.latitude.value < -90
  \/ location.longitude.value > 180 \/ location.longitude.value < -180

\* The network-origin tier failed: ipapi timed out or failed, or its body
\* lacks an axis.
IpTierFailed(response) ==
  \/ response.kind = "timeout"
  \/ response.latitude.type # "number" \/ response.longitude.type # "number"

IsValidCoordinate(latitude, longitude) ==
  /\ latitude.type = "number" /\ longitude.type = "number"
  /\ latitude.value >= -90 /\ latitude.value <= 90
  /\ longitude.value >= -180 /\ longitude.value <= 180
  /\ ~(latitude.value = 0 /\ longitude.value = 0)

\* C12: when the device reports a valid coordinate the run works with that
\* coordinate and does not ask ipapi, and the answers of the reverse
\* geocoder and of the air-quality provider do not move it off that
\* coordinate.
C12_DeviceCoordinateUsed ==
  [][/\ (/\ event'.op = "location_return" /\ event'.response.kind = "value"
         /\ IsValidCoordinate(event'.response.latitude, event'.response.longitude))
        => \E r \in BagToSet(runs) :
             /\ r.pc = "location" /\ r.sid = event'.sid
             /\ Continue(r, [r EXCEPT !.pc = "geocode", !.source = "device",
                               !.location = [latitude |-> event'.response.latitude,
                                             longitude |-> event'.response.longitude]])
     /\ event'.op \in {"geocode_return", "fetch_return"}
        => \A r \in BagToSet(runs) :
             (r.source = "device" /\ ~BagIn(r, runs'))
             => \E r2 \in BagToSet(runs') :
                  /\ Continue(r, r2)
                  /\ r2.source = "device" /\ r2.location = r.location
                  /\ r2.pc \notin {"ip", "location"}]_vars

\* C15: the validation of a reported location accepts it exactly when it
\* is a valid coordinate: it rejects an absent or NaN axis, a latitude
\* outside -90..90, a longitude outside -180..180 and the pair (0,0), and
\* accepts everything else, a coordinate with one zero axis included.
C15_ValidatorAcceptsExactly ==
  [][(event'.op = "location_return" /\ event'.response.kind = "value")
     => \E r \in BagToSet(runs) :
          /\ r.pc = "location" /\ r.sid = event'.sid
          /\ IF IsValidCoordinate(event'.response.latitude, event'.response.longitude)
             THEN \E r2 \in BagToSet(runs') :
                    Continue(r, r2) /\ r2.source = "device" /\ r2.pc = "geocode"
             ELSE \E r2 \in BagToSet(runs') :
                    Continue(r, r2) /\ r2.source = "none" /\ r2.pc = "ip"]_vars

\* C21: within one run of checkAirQuality the provider is called at most
\* once: a failed fetch is not repeated, neither with the same coordinate
\* nor with the coordinate of another tier.
C21_SingleFetchPerCycle ==
  \A r \in BagToSet(runs) : r.fetches <= 1

\* C28: when the reverse geocoder fails or times out for the coordinate of
\* a run, the run goes on in the same tier with the same coordinate from
\* the same source and the place label 'Your area', and presents the
\* checking text: it neither falls to the next tier nor ends.
C28_GeocodeFailureKeepsCoordinate ==
  [][\A r \in BagToSet(runs) :
       GeocodeReturn(r, FALSE)
       => /\ runs' = (runs (-) SetToBag({r})) (+) SetToBag({[r EXCEPT !.pc = "checking"]})
          /\ event'.response = [kind |-> "place", name |-> "Your area"]
          /\ event'.msgs = <<Message("checking")>>]_vars

\* The geocoder has failed for a coordinate of the device, and the run is
\* about to ask the provider for that coordinate.
C28_Witness ==
  /\ event.op = "geocode_return"
  /\ event.response = [kind |-> "place", name |-> "Your area"]
  /\ \E r \in BagToSet(runs) :
       /\ r.sid = event.sid /\ r.origin = event.origin
       /\ r.tier = "precise" /\ r.pc = "checking" /\ r.source = "device"
       /\ IsValidCoordinate(r.location.latitude, r.location.longitude)

\* C29: when the body ipapi sends lacks the latitude or the longitude, the
\* run takes the IP tier as failed and goes on with the static default
\* (London), recorded as such; a coordinate a run takes from the IP tier
\* has two numeric, non-zero axes, and the default is always London.
C29_MissingFieldIsFailure ==
  [][/\ (/\ event'.op = "ip_return" /\ event'.response.kind = "body"
         /\ (\/ event'.response.latitude = Undefined
             \/ event'.response.longitude = Undefined))
        => \E r \in BagToSet(runs) :
             /\ r.pc = "ip" /\ r.sid = event'.sid /\ r.origin = event'.origin
             /\ runs' = (runs (-) SetToBag({r}))
                  (+) SetToBag({[r EXCEPT !.pc = "geocode", !.source = "default",
                                          !.location = [latitude |-> Num(51),
                                                        longitude |-> Num(0)]]})
     /\ \A r \in BagToSet(runs') :
          /\ r.source = "ip"
               => /\ r.location.latitude.type = "number"
                  /\ r.location.longitude.type = "number"
                  /\ r.location.latitude.value # 0
                  /\ r.location.longitude.value # 0
          /\ r.source = "default" => r.location = LondonP003]_vars

\* ipapi has sent a body with a latitude and no longitude, and the run goes
\* on with London.
C29_Witness ==
  /\ event.op = "ip_return" /\ event.response.kind = "body"
  /\ event.response.latitude = Num(40) /\ event.response.longitude = Undefined
  /\ \E r \in BagToSet(runs) :
       /\ r.sid = event.sid /\ r.origin = event.origin
       /\ r.pc = "geocode" /\ r.source = "default" /\ r.location = LondonP003

\* C30: the reading a run presents tells the presenter that the default
\* location is in use exactly when the coordinate the run fetched it for
\* is the static default, whichever step of the chain supplied it.
C30_SourceHandedToPresenter ==
  [][\A r \in BagToSet(runs), response \in Responses :
       (FetchReturnP003(r, response) /\ ~FetchAQIThrows(response))
       => (event'.msgs[1].isDefaultLocation <=> r.source = "default")]_vars

\* =====================================================================
\* Properties of location pushes (SpecP006)
\* =====================================================================
\* C5: handling a location push of the host calls no provider and presents
\* nothing, and leaves the runs awaiting the provider as they were.
C5_PushOnlyStores ==
  [][event'.op = "location"
     => event'.calls = 0 /\ event'.msgs = <<>> /\ lookups' = lookups]_vars

\* C16: the location a session stores and the coordinate of every call of
\* the air-quality provider are valid coordinates.
C16_OnlyValidCoordinates ==
  /\ \A s \in DOMAIN sessionLocation :
       sessionLocation[s].present
       => IsValidCoordinate(sessionLocation[s].latitude, sessionLocation[s].longitude)
  /\ \A l \in BagToSet(lookups) : IsValidCoordinate(l.latitude, l.longitude)

\* The position of the level a reading with index i belongs to: the first
\* of the thresholds 50, 100, 150, 200, 300 that is at least i, and the
\* last position, 6, when none is.
LevelOf(i) ==
  IF \E k \in 1..5 : i <= <<50, 100, 150, 200, 300>>[k]
  THEN CHOOSE k \in 1..5 :
         /\ i <= <<50, 100, 150, 200, 300>>[k]
         /\ \A j \in 1..(k - 1) : i > <<50, 100, 150, 200, 300>>[j]
  ELSE 6

\* C17: a presented reading with index i >= 0 carries the label of the
\* first level, in ascending order of threshold, whose threshold is at
\* least i, and of the last level when there is none: 50 is Good, 51 to
\* 100 is Moderate, and everything above the largest finite threshold is
\* Hazardous.
C17_ClassifyFirstThreshold ==
  \A n \in 1..Len(event.msgs) :
    LET m == event.msgs[n]
        i == m.data.aqi.value
    IN (m.kind = "reading" /\ m.data.aqi.type = "number" /\ i >= 0)
       => /\ m.quality = AQI_LEVELS_TYPES[LevelOf(i)].label
          /\ i <= 50 => m.quality = "Good"
          /\ (i >= 51 /\ i <= 100) => m.quality = "Moderate"
          /\ i > 500 => m.quality = "Hazardous"

\* Readings at the boundaries have been presented: this one is 50 and Good.
C17_Witness ==
  /\ event.op = "lookup_done"
  /\ event.response.aqi = Num(50)
  /\ Len(event.msgs) = 1 /\ event.msgs[1].kind = "reading"
  /\ event.msgs[1].quality = "Good"

\* The longest time a variant lets a call take: the 15 s race for the
\* precise location of part_003 (the provider calls have 3, 5, 8 or 10 s).
LongestTimeoutMs == 15000

\* C22: a call of the provider made for a lookup is answered or given up
\* within the time of a timeout, so no lookup stays in flight longer than
\* the longest timeout while the provider is silent.
C22_CallsBounded ==
  \A l \in BagToSet(lookups) : now - l.started <= LongestTimeoutMs

\* C25: a push that carries a valid coordinate with two non-zero axes is
\* accepted whether it names them {latitude, longitude} or {lat, lon}: no
\* error text is presented and the coordinate stored for the session is
\* the pair of values the push carried.
C25_BothKeyConventions ==
  [][\A s \in Sessions, update \in LocationPushes :
       (/\ OnLocationP006(s, update)
        /\ Truthy(update.a) /\ Truthy(update.b)
        /\ IsValidCoordinate(update.a, update.b))
       => /\ event'.msgs = <<>>
          /\ sessionLocation'[s] = [present |-> TRUE, latitude |-> update.a,
                                    longitude |-> update.b]]_vars

\* =====================================================================
\* Properties of the location tiers of v4.2.3 (SpecV423)
\* =====================================================================
\* The tier named a comes before the tier named b in the sequence tiers.
TriedBefore(tiers, a, b) ==
  \E i, j \in 1..Len(tiers) : i < j /\ tiers[i] = a /\ tiers[j] = b

\* C13: a lookup runs on the static default coordinate only if the device
\* tier and then the network-origin (IP) tier were tried before it, and a
\* lookup that runs on the device coordinate has consulted no later tier.
C13_DefaultOnlyAfterIp ==
  \A r \in BagToSet(inflight) :
    /\ r.coords = DefaultLocation
         => TriedBefore(r.tiers, "device", "ip") /\ TriedBefore(r.tiers, "ip", "default")
    /\ r.coords # DefaultLocation => r.tiers = <<"device">>

\* C19: when the provider answers with status "ok" and a numeric index
\* that is at least 0, the value 0 included, the fetch succeeds and the
\* reading presented holds the index of the answer.
C19_ReadingForEveryIndex ==
  (/\ event.op \in {"fetch_ok", "fetch_failed"}
   /\ HasNumericIndex(event.response)
   /\ event.response.aqi.value >= 0)
  => /\ event.op = "fetch_ok"
     /\ \E n \in 1..Len(event.msgs) :
          /\ event.msgs[n].kind = "result"
          /\ event.msgs[n].data.aqi = event.response.aqi

\* C23: the start of a session performs exactly one lookup, and a lookup
\* starts at no other step than a session start or the handling of an
\* event the host delivers.
C23_InitialCycleOnStart ==
  [][/\ event'.op = "session"
          => /\ event'.calls = 1
             /\ BagCardinality(inflight') = BagCardinality(inflight) + 1
     /\ BagCardinality(inflight') > BagCardinality(inflight)
          => event'.op \in {"session", "request"}]_vars

\* =====================================================================
\* Properties of v4.2.3 (SpecV423)
\* =====================================================================
LastMsg(e) == e.msgs[Len(e.msgs)]
ResultsOf(e) == {i \in 1..Len(e.msgs) : e.msgs[i].kind = "result"}
\* this.sessions.get(sessionId).lastAQI
CachedReading(s) == objects[sessions[s]].lastAQI
\* The step is a request of session s (a recognized final utterance).
IsRequestStep(s) == sessions[s] # 0 /\ event'.op = "request" /\ event'.sid = s

\* C6: a request made while the cached reading is at most 2 minutes old
\* (boundary included) calls no provider, presents the cached reading with
\* 'Same as N s ago', N the age in whole seconds, and leaves the cache as it is.
C6_RecentReuse ==
  [][\A s \in Sessions :
       (/\ IsRequestStep(s)
        /\ CachedReading(s).present
        /\ now - CachedReading(s).timestamp <= 120000)
       => /\ event'.calls = 0
          /\ inflight' = inflight
          /\ objects' = objects
          /\ Cardinality(ResultsOf(event')) = 1
          /\ LastMsg(event').kind = "result"
          /\ LastMsg(event').data = CachedReading(s).data
          /\ LastMsg(event').freshness.tag = "same_s_ago"
          /\ LET n == LastMsg(event').freshness.n
                 ageMs == now - CachedReading(s).timestamp
             IN n * 1000 <= ageMs /\ ageMs < (n + 1) * 1000]_vars

\* A reading exactly 2 minutes old has been presented as 'Same as 120s ago'.
C6_Witness ==
  /\ event.op = "request" /\ event.calls = 0 /\ event.msgs # <<>>
  /\ LastMsg(event).kind = "result"
  /\ LastMsg(event).freshness = [tag |-> "same_s_ago", n |-> 120]

\* C7: a request made while the cached reading is older than 2 minutes and
\* at most 15 minutes old (boundary included) calls no provider, presents the
\* cached reading with its age in whole minutes and leaves the cache as it is.
C7_AgingReuse ==
  [][\A s \in Sessions :
       (/\ IsRequestStep(s)
        /\ CachedReading(s).present
        /\ now - CachedReading(s).timestamp > 120000
        /\ now - CachedReading(s).timestamp <= 900000)
       => /\ event'.calls = 0
          /\ inflight' = inflight
          /\ objects' = objects
          /\ Cardinality(ResultsOf(event')) = 1
          /\ LastMsg(event').kind = "result"
          /\ LastMsg(event').data = CachedReading(s).data
          /\ LastMsg(event').freshness.tag = "m_old_data"
          /\ LET n == LastMsg(event').freshness.n
                 ageMs == now - CachedReading(s).timestamp
             IN n * 60000 <= ageMs /\ ageMs < (n + 1) * 60000]_vars

\* A reading exactly 15 minutes old has been presented as '15m old data'.
C7_Witness ==
  /\ event.op = "request" /\ event.calls = 0 /\ event.msgs # <<>>
  /\ LastMsg(event).kind = "result"
  /\ LastMsg(event).freshness = [tag |-> "m_old_data", n |-> 15]

\* The provider answered with a reading: status "ok" and a usable index.
IsReading(response) ==
  response.kind = "body" /\ response.status = "ok" /\ response.aqi.type = "number"

IsFailure(response) ==
  \/ response.kind = "timeout"
  \/ response.status # "ok"
  \/ response.aqi.type = "undefined"

C10_NeverPastRefresh ==
  \A i \in 1..Len(event.msgs) :
    event.msgs[i].kind = "result"
    => event.msgs[i].requestedAt - event.msgs[i].fetchedAt <= 900000

\* A reading obtained exactly 15 minutes before the request was presented.
C10_Witness ==
  \E i \in 1..Len(event.msgs) :
    /\ event.msgs[i].kind = "result"
    /\ event.msgs[i].requestedAt - event.msgs[i].fetchedAt = 900000


\* =====================================================================
\* Properties of two sessions of v4.2.3 (SpecV423Pair)
\* =====================================================================
\* The SessionData this.sessions holds for session s: the stored coordinate
\* and the cached reading
StateOf(s, objs, map) ==
  IF map[s] = 0 THEN NewSessionData ELSE objs[map[s]]

\* C26: a step taken for one session (its start, an utterance, a location
\* push, the answer of the provider to its request) leaves the stored
\* coordinate and the cached reading of every other session, and the entry
\* of every other session in the map, as they were.
C26_OtherSessionsUntouched ==
  [][\A s \in SessionPair :
       event'.sid # s
       => /\ StateOf(s, objects', sessions') = StateOf(s, objects, sessions)
          /\ sessions'[s] = sessions[s]
          /\ handlers'[s] = handlers[s]]_vars

\* The provider has answered the request of one session, which has no
\* stored coordinate, while the other session holds a stored coordinate
\* and a cached reading of its own; both sessions now hold a reading.
C26_Witness ==
  /\ event.op = "fetch_ok" /\ event.sid = "s2"
  /\ handlers["s1"] # 0 /\ handlers["s2"] # 0 /\ handlers["s1"] # handlers["s2"]
  /\ objects[handlers["s1"]].lastAQI.present
  /\ objects[handlers["s1"]].location.present
  /\ objects[handlers["s2"]].lastAQI.present
  /\ ~objects[handlers["s2"]].location.present

\* C27: the program holds per-session state exactly for the sessions that
\* are running: an entry of this.sessions exists from the start of a
\* session on, and none exists for a session the host has ended.
C27_StateOnlyWhileRunning ==
  \A s \in SessionPair : sessions[s] # 0 <=> handlers[s] # 0

\* C31: the reading a request takes from the cache is presented with the
\* location indication it was fetched with.  When the provider's answer has
\* just been presented for session s and the next step is a request of s
\* answered from the cache, both messages show the same reading, so the
\* 'Using default location' note is on both or on neither.
C31_CachedReadingAsUnit ==
  [][(/\ event.op = "fetch_ok" /\ ResultsOf(event) # {}
      /\ event'.op = "request" /\ event'.sid = event.sid
      /\ event'.calls = 0 /\ ResultsOf(event') # {})
     => \A i \in ResultsOf(event), j \in ResultsOf(event') :
          /\ event'.msgs[j].data = event.msgs[i].data
          /\ event'.msgs[j].isDefaultLocation = event.msgs[i].isDefaultLocation]_vars

\* The fallback the README names, "Murcia, Spain" (37.99 N, 1.13 W).
Murcia == [latitude |-> Num(38), longitude |-> Num(-1)]

\* C32: a run that obtained no coordinate from the device and none from IP
\* geolocation asks the provider for the reading of Murcia.
C32_FallbackIsMurcia ==
  \A r \in BagToSet(runs) :
    (r.pc = "fetch" /\ r.source = "default") => r.location = Murcia

\* The result messages of the last step that present a reading with index 42
Index42Results(e) == {i \in ResultsOf(e) : e.msgs[i].data.aqi = Num(42)}

\* C33 (as the table of v4.2.3 has it): a reading with index 42 is classified
\* and presented as "Good", whether it was just fetched or comes from the
\* cache.
C33_Index42IsGood ==
  /\ GetQualityLevel(Num(42)).label = "Good"
  /\ \A i \in Index42Results(event) : event.msgs[i].quality = "Good"

\* A request answered from the cache presents a reading with index 42.
C33_Witness ==
  /\ event.op = "request" /\ event.calls = 0
  /\ Index42Results(event) # {}

\* C33 (as stated): a reading with index 42 is classified and presented as
\* "Moderate".
C33_Index42IsModerate ==
  \A i \in Index42Results(event) : event.msgs[i].quality = "Moderate"

\* C34: the timestamp of a session's cached reading never decreases: the
\* answer to a request that started earlier does not replace a reading
\* cached by a request that started later.
C34_CacheTimestampMonotone ==
  [][\A s \in Sessions :
       (sessions[s] # 0 /\ sessions'[s] = sessions[s])
       => CachedReading(s)'.timestamp >= CachedReading(s).timestamp]_vars

\* The coordinate the location handler of session s has stored and that is
\* at most 30 seconds old at time t
FreshPush(s, t) ==
  /\ handlers[s] # 0
  /\ objects[handlers[s]].location.present
  /\ t - objects[handlers[s]].location.timestamp <= LOCATION_MAX_AGE_MS

\* C35: whatever the order of the session_request webhook and the session
\* start, the location handler writes the SessionData that requests read,
\* and a request that fetches within 30 seconds of an accepted push asks the
\* provider for the pushed coordinate.
C35_PushReachesRequest ==
  [][\A s \in Sessions :
       /\ (event'.op = "location" /\ event'.sid = s /\ objects' # objects)
          => handlers[s] = sessions[s]
       /\ (IsRequestStep(s) /\ event'.calls = 1 /\ FreshPush(s, now))
          => \E r \in BagToSet(inflight') :
               /\ r.sid = s /\ r.now = now
               /\ r.coords = [lat |-> objects[handlers[s]].location.lat,
                              lon |-> objects[handlers[s]].location.lon]]_vars

\* lowercased and trimmed, the text of the transcript contains the command
HasCommand(data) ==
  data.hasText /\ Includes(Trim(ToLowerCase(data.text)), VOICE_COMMAND)

\* C36: a transcript that is not final starts no lookup, even with the
\* command in its text: no request is made, no provider call is issued, no
\* result is presented and no SessionData changes; a request is started only
\* by a final transcript whose text contains the command.
C36_OnlyFinalStartsLookup ==
  [][/\ \A s \in Sessions, data \in Transcriptions :
          (~data.isFinal /\ OnTranscription(s, data))
          => /\ event'.op # "request" /\ event'.calls = 0
             /\ ResultsOf(event') = {}
             /\ inflight' = inflight /\ objects' = objects
     /\ event'.op = "request"
        => \E s \in Sessions, data \in Transcriptions :
             data.isFinal /\ HasCommand(data) /\ OnTranscription(s, data)]_vars

\* A request is in flight that a final transcript started, and the last
\* step was a transcript (final or not) that started none.
C36_Witness ==
  /\ event.op = "transcription" /\ LastMsg(event).kind = "processing"
  /\ inflight # EmptyBag

\* "No speech detected", 'Processing: "..."' and 'Try saying "air quality"'
FeedbackKinds == {"no_speech", "processing", "hint"}

\* C37: a transcript without text, or whose text does not contain the
\* command, leaves every SessionData (cached reading and stored coordinate)
\* and the calls in flight as they were and issues no provider call; all it
\* does is present feedback: the 'no speech' text, the processing text, the
\* hint.
C37_NonCommandOnlyFeedback ==
  [][\A s \in Sessions, data \in Transcriptions :
       (OnTranscription(s, data) /\ ~HasCommand(data))
       => /\ objects' = objects /\ inflight' = inflight
          /\ event'.calls = 0
          /\ event'.msgs # <<>>
          /\ \A i \in 1..Len(event'.msgs) : event'.msgs[i].kind \in FeedbackKinds]_vars

\* The hint has been presented to a session that holds a cached reading and
\* a stored coordinate.
C37_Witness ==
  /\ event.op = "transcription" /\ LastMsg(event).kind = "hint"
  /\ sessions[event.sid] # 0
  /\ CachedReading(event.sid).present
  /\ objects[sessions[event.sid]].location.present

\* The messages of a step that tell how a lookup ended: every text but the
\* loading text and the feedback on a transcript
OutcomeMessages(e) ==
  {i \in 1..Len(e.msgs) : e.msgs[i].kind \notin {"checking"} \cup FeedbackKinds}

\* C38: the step that ends a run of checkAirQuality presents exactly one
\* outcome message, the reading or one failure text; a failure is not
\* presented a second time by the caller of checkAirQuality.
C38_OneOutcomePerCycle ==
  event.outcome \in {"ok", "failed"} => Cardinality(OutcomeMessages(event)) = 1

\* The position in the table of the level with the given label
TierIndex(levels, label) == CHOOSE k \in 1..Len(levels) : levels[k].label = label

\* C39: classification is monotone in both tables: of two indexes
\* classified with the same table, the smaller one is given a level that is
\* not later in the table than the level of the larger one.
C39_ClassificationMonotone ==
  [][(/\ event.op = "classify" /\ event'.op = "classify"
      /\ event.origin = event'.origin
      /\ event.msgs[1].data.aqi.value <= event'.msgs[1].data.aqi.value)
     => TierIndex(LevelTables[event.origin], event.msgs[1].quality)
          <= TierIndex(LevelTables[event.origin], event'.msgs[1].quality)]_vars

\* An index above the last threshold of the table that ends with 500 has
\* been classified, as Hazardous.
C39_Witness ==
  /\ event.op = "classify" /\ event.origin = "AQI_LEVELS_TYPES"
  /\ event.msgs[1].data.aqi = Num(501)
  /\ event.msgs[1].quality = "Hazardous"

\* The step handles a recognized utterance of session s: the voice handler
\* has shown the waiting text or emitted the 'location' event.
IsRecognizedUtterance(s) ==
  /\ event'.sid = s
  /\ \/ event'.op = "emit"
     \/ event'.op = "utterance" /\ IsCommand(ToLowerCase(event'.text))

\* C40: a recognized utterance of a session without a stored location makes
\* no call of the provider and presents the waiting text; one of a session
\* with a stored location starts one lookup, for exactly the stored
\* coordinate.
C40_UtteranceUsesStoredLocation ==
  [][\A s \in DOMAIN sessionLocation :
       IsRecognizedUtterance(s)
       => IF ~sessionLocation[s].present
          THEN /\ event'.calls = 0 /\ lookups' = lookups
               /\ LastMsg(event').kind = "waiting_for_location"
          ELSE /\ event'.calls = 1
               /\ \E l \in BagToSet(lookups') :
                    /\ lookups' = lookups (+) SetToBag({l})
                    /\ l.sid = s
                    /\ l.latitude = sessionLocation[s].latitude
                    /\ l.longitude = sessionLocation[s].longitude]_vars
====
